---- MODULE Spec2Model ----
(***************************************************************************)
(* Model of the Firecrawl website crawler: main.py (create_safe_filename,  *)
(* save_crawl_results, crawl_website) and app.py (verify_password,         *)
(* create_zip_from_directory, start_crawl).                                *)
(*                                                                         *)
(* Strings are sequences of one-character strings, so that strip, replace, *)
(* character filtering, slicing and formatting are computed as the code    *)
(* computes them.  The filesystem is a set of entries, each with the run   *)
(* directory it lives in, its path relative to that directory and its      *)
(* kind.                                                                   *)
(***************************************************************************)
EXTENDS Integers, Sequences, FiniteSets, TLC

VARIABLES
    admin_password, \* os.getenv('ADMIN_PASSWORD'): [set |-> BOOLEAN, value |-> string]
    now,            \* the wall clock, in seconds
    req,            \* one record per POST /crawl request
    files,          \* entries under the output root firecrawl_output/
    tmpfiles,       \* temporary archive files: name -> [entries, complete]
    call,           \* a direct call of one function: its arguments and position
    ret             \* what that call returned

vars == <<admin_password, now, req, files, tmpfiles, call, ret>>

(***************************************************************************)
(* Bounds of the model.                                                    *)
(***************************************************************************)
NumReqs == 2        \* POST /crawl requests
MaxTime == 1        \* the clock runs over the seconds 0..MaxTime
MaxPages == 2       \* pages in one crawl result
LongExtra == 2      \* titles up to max_length + LongExtra characters are tried

(***************************************************************************)
(* String helpers (Python str methods used by the code).                   *)
(***************************************************************************)
LowerCase == {"a","b","c","d","e","f","g","h","i","j","k","l","m",
              "n","o","p","q","r","s","t","u","v","w","x","y","z"}
UpperCase == {"A","B","C","D","E","F","G","H","I","J","K","L","M",
              "N","O","P","Q","R","S","T","U","V","W","X","Y","Z"}
Digits == {"0","1","2","3","4","5","6","7","8","9"}
DigitSeq == <<"0","1","2","3","4","5","6","7","8","9">>
Whitespace == {" ", "\t", "\n"}

\* s[n:]
Drop(s, n) == SubSeq(s, n + 1, Len(s))

\* ''.join(c for c in s if c in keep)
FilterChars(s, keep) == SelectSeq(s, LAMBDA c : c \in keep)

\* s.lstrip(chars)
RECURSIVE LStrip(_, _)
LStrip(s, chars) ==
    IF s # <<>> /\ Head(s) \in chars THEN LStrip(Tail(s), chars) ELSE s

\* s.rstrip(chars)
RECURSIVE RStrip(_, _)
RStrip(s, chars) ==
    IF s # <<>> /\ s[Len(s)] \in chars THEN RStrip(SubSeq(s, 1, Len(s) - 1), chars) ELSE s

\* s.strip(chars); str.strip() with no argument strips whitespace
Strip(s, chars) == RStrip(LStrip(s, chars), chars)

\* s.replace(old, new) for single characters
Replace(s, old, new) == [i \in DOMAIN s |-> IF s[i] = old THEN new ELSE s[i]]

\* s.startswith(prefix)
StartsWith(s, prefix) == Len(s) >= Len(prefix) /\ SubSeq(s, 1, Len(prefix)) = prefix

\* the first index of a character of chars in s, 0 when there is none
FirstIn(s, chars) ==
    IF \E i \in DOMAIN s : s[i] \in chars
    THEN CHOOSE i \in DOMAIN s : s[i] \in chars /\ \A j \in 1..(i - 1) : s[j] \notin chars
    ELSE 0

\* str(n) for n >= 0
RECURSIVE IntStr(_)
IntStr(n) == IF n < 10 THEN <<DigitSeq[n + 1]>> ELSE IntStr(n \div 10) \o <<DigitSeq[(n % 10) + 1]>>

\* f"{n:03d}": zero-padded to at least three digits
Pad3(n) ==
    LET d == IntStr(n)
    IN  IF Len(d) >= 3 THEN d ELSE [i \in 1..(3 - Len(d)) |-> "0"] \o d

(***************************************************************************)
(* urllib.parse.urlparse, for the URLs the program handles: an optional    *)
(* scheme before the first ':', a netloc after '//', and the path up to    *)
(* the query or fragment.                                                  *)
(***************************************************************************)
SchemeChars == LowerCase \cup UpperCase \cup Digits \cup {"+", "-", "."}

\* the result, with the path cut before the query or fragment at index cut
url_path_at(scheme, netloc, tail, cut) ==
    [scheme |-> scheme, netloc |-> netloc,
     path |-> IF cut = 0 THEN tail ELSE SubSeq(tail, 1, cut - 1)]

url_path(scheme, netloc, tail) == url_path_at(scheme, netloc, tail, FirstIn(tail, {"?", "#"}))

\* the netloc runs to the first '/', '?' or '#' (index delim) after the '//'
url_authority_at(scheme, after, delim) ==
    IF delim = 0 THEN url_path(scheme, after, <<>>)
    ELSE url_path(scheme, SubSeq(after, 1, delim - 1), Drop(after, delim - 1))

url_netloc(scheme, rest) ==
    IF StartsWith(rest, <<"/", "/">>)
    THEN url_authority_at(scheme, Drop(rest, 2), FirstIn(Drop(rest, 2), {"/", "?", "#"}))
    ELSE url_path(scheme, <<>>, rest)

\* the index of the ':' that ends the scheme, 0 when the URL has no scheme
scheme_end_at(url, colon) ==
    IF /\ colon > 1
       /\ url[1] \in LowerCase \cup UpperCase
       /\ \A i \in 1..(colon - 1) : url[i] \in SchemeChars
    THEN colon ELSE 0

url_after_scheme(url, se) ==
    IF se > 0 THEN url_netloc(SubSeq(url, 1, se - 1), Drop(url, se))
    ELSE url_netloc(<<>>, url)

urlparse(url) == url_after_scheme(url, scheme_end_at(url, FirstIn(url, {":"})))

(***************************************************************************)
(* main.py: create_safe_filename                                           *)
(***************************************************************************)
max_length == 100

safe_chars == {"-", "_", ".", "(", ")", " "} \cup LowerCase \cup UpperCase \cup Digits

LitIndex == <<"i","n","d","e","x">>
LitPage == <<"p","a","g","e">>

\* lines 26-27: the URL path without its outer '/', or 'index'
path_base_name(path) == IF path # <<>> THEN Replace(path, "/", "_") ELSE LitIndex

\* lines 23-27: the title when it is truthy, else the URL path
base_name_wrong_test(url, page_title) ==
    IF Strip(page_title, Whitespace) # <<>> THEN Strip(page_title, Whitespace)
    ELSE path_base_name(Strip(urlparse(url).path, {"/"}))

base_name_of(url, page_title) ==
    IF page_title # <<>> THEN Strip(page_title, Whitespace)
    ELSE path_base_name(Strip(urlparse(url).path, {"/"}))

\* lines 34-35
truncate(safe_name) ==
    IF Len(safe_name) > max_length THEN SubSeq(safe_name, 1, max_length) ELSE safe_name

\* line 37
or_page(safe_name) == IF safe_name # <<>> THEN safe_name ELSE LitPage

create_safe_filename(url, page_title) ==
    or_page(truncate(FilterChars(base_name_of(url, page_title), safe_chars)))

(***************************************************************************)
(* File names and the filesystem.  An entry is                             *)
(*   [dir, path, kind, content, by]                                        *)
(* dir: the run directory's name; path: the names below it (<<>> is the    *)
(* run directory itself); kind: "dir", "file", "symlink_file",             *)
(* "symlink_dir", "symlink_dangling" or "fifo"; by: the request or caller  *)
(* that wrote it.                                                          *)
(***************************************************************************)
LitMetadataJson == <<"m","e","t","a","d","a","t","a",".","j","s","o","n">>
LitIndexMd == <<"i","n","d","e","x",".","m","d">>
LitPages == <<"p","a","g","e","s">>
LitDotMd == <<".","m","d">>
LitPagePrefix == <<"p","a","g","e","_">>
LitUntitled == <<"U","n","t","i","t","l","e","d">>

\* a record field with a default: getattr(obj, name, default) / dict.get(name, default)
Get(rec, name, default) == IF name \in DOMAIN rec THEN rec[name] ELSE default

\* Path.exists(): follows symbolic links
Exists(fs, dir, path) ==
    \E f \in fs : f.dir = dir /\ f.path = path /\ f.kind # "symlink_dangling"

\* Path.mkdir(exist_ok=True)
Mkdir(fs, dir, path, by) ==
    IF \E f \in fs : f.dir = dir /\ f.path = path THEN fs
    ELSE fs \cup {[dir |-> dir, path |-> path, kind |-> "dir",
                   content |-> [type |-> "dir"], by |-> by]}

\* open(path, 'w') and the writes: the file is created or replaced
WriteFile(fs, dir, path, content, by) ==
    {f \in fs : ~(f.dir = dir /\ f.path = path)}
        \cup {[dir |-> dir, path |-> path, kind |-> "file", content |-> content, by |-> by]}

\* datetime.now().strftime("%Y%m%d_%H%M%S") of the second t (t < 60): one
\* string per second
strftime(t) ==
    <<"2","0","2","5","0","1","0","1","_","0","0","0","0">>
        \o (IF t < 10 THEN <<"0">> ELSE <<>>) \o IntStr(t)

(***************************************************************************)
(* main.py: save_crawl_results                                             *)
(***************************************************************************)
\* line 85 (k = 0) and line 90 (k >= 1)
page_file_name(idx, filename, k) ==
    Pad3(idx) \o <<"_">> \o filename
        \o (IF k = 0 THEN <<>> ELSE <<"_">> \o IntStr(k)) \o LitDotMd

\* lines 85-91: the candidate, then _1, _2, ... while the path exists
RECURSIVE unique_from(_, _, _, _, _)
unique_from(fs, dir, idx, filename, k) ==
    IF Exists(fs, dir, <<LitPages, page_file_name(idx, filename, k)>>)
    THEN unique_from(fs, dir, idx, filename, k + 1)
    ELSE page_file_name(idx, filename, k)

unique_file_name_no_check(fs, dir, idx, filename) == page_file_name(idx, filename, 0)

unique_file_name(fs, dir, idx, filename) == unique_from(fs, dir, idx, filename, 0)

\* lines 71-81: the page's fields, by attribute or by key
page_url_of(page, idx) == Get(Get(page, "metadata", <<>>), "sourceURL", LitPagePrefix \o IntStr(idx))
page_title_of(page) == Get(Get(page, "metadata", <<>>), "title", <<>>)
markdown_of(page) == Get(page, "markdown", <<>>)

\* line 94: whether the page is written
is_saved(page) == markdown_of(page) # <<>>

\* the ordinal enumerate() gives the page at position pos (1-based here)
ordinal_by_saved_count(pos, saved) == Len(saved)

ordinal(pos, saved) == pos - 1

\* lines 94-107: the page is written under name and recorded, or skipped
save_page(st, page, page_url, page_title, name, dir, timestamp, by) ==
    IF is_saved(page)
    THEN [files |-> WriteFile(st.files, dir, <<LitPages, name>>,
                        [type |-> "page", title |-> page_title, url |-> page_url,
                         crawled |-> timestamp, body |-> markdown_of(page)], by),
          saved_files |-> Append(st.saved_files,
                        [filename |-> name, url |-> page_url, title |-> page_title])]
    ELSE st

\* lines 70-107: one page at ordinal idx
save_page_at(st, page, idx, dir, timestamp, by) ==
    save_page(st, page, page_url_of(page, idx), page_title_of(page),
              unique_file_name(st.files, dir, idx,
                               create_safe_filename(page_url_of(page, idx), page_title_of(page))),
              dir, timestamp, by)

\* lines 69-107: the loop over the pages, from position pos on; st is
\* [files, saved_files]
RECURSIVE save_pages(_, _, _, _, _, _)
save_pages(st, data, pos, dir, timestamp, by) ==
    IF pos > Len(data) THEN st
    ELSE save_pages(save_page_at(st, data[pos], ordinal(pos, st.saved_files), dir, timestamp, by),
                    data, pos + 1, dir, timestamp, by)

\* line 114: the count written to index.md
index_total_declared(crawl_result, saved_files) == Get(crawl_result, "total", 0)

index_total(crawl_result, saved_files) == Len(saved_files)

\* lines 110-118
index_content(domain, base_url, timestamp, crawl_result, saved_files) ==
    [type |-> "index", domain |-> domain, base_url |-> base_url, crawled |-> timestamp,
     total |-> index_total(crawl_result, saved_files),
     entries |-> [i \in DOMAIN saved_files |->
                    [title |-> IF saved_files[i].title # <<>> THEN saved_files[i].title
                               ELSE LitUntitled,
                     link |-> <<LitPages, saved_files[i].filename>>,
                     url |-> saved_files[i].url]]]

\* line 44
domain_of(base_url) == Replace(urlparse(base_url).netloc, ".", "_")

\* lines 43-45: the run directory's name
crawl_dir_name(base_url, t) == domain_of(base_url) \o <<"_">> \o strftime(t)

\* lines 49-55
metadata_content(crawl_result, base_url, timestamp) ==
    [type |-> "metadata", base_url |-> base_url, crawl_timestamp |-> timestamp,
     total_pages |-> Get(crawl_result, "total", 0),
     status |-> Get(crawl_result, "status", "unknown"),
     credits_used |-> Get(crawl_result, "creditsUsed", 0)]

\* lines 110-120: index.md is written and the call returns
save_index(st, crawl_result, base_url, domain, crawl_dir, timestamp, by) ==
    [files |-> WriteFile(st.files, crawl_dir, <<LitIndexMd>>,
                   index_content(domain, base_url, timestamp, crawl_result, st.saved_files), by),
     crawl_dir |-> crawl_dir, saved_count |-> Len(st.saved_files),
     saved_files |-> st.saved_files]

\* lines 46-120, with the names of lines 43-45 computed
save_into(fs, crawl_result, base_url, domain, crawl_dir, timestamp, by) ==
    save_index(
        save_pages([files |-> Mkdir(WriteFile(Mkdir(fs, crawl_dir, <<>>, by), crawl_dir,
                                              <<LitMetadataJson>>,
                                              metadata_content(crawl_result, base_url, timestamp), by),
                                    crawl_dir, <<LitPages>>, by),
                    saved_files |-> <<>>],
                   Get(crawl_result, "data", <<>>), 1, crawl_dir, timestamp, by),
        crawl_result, base_url, domain, crawl_dir, timestamp, by)

\* lines 39-120; returns the filesystem after the call, the run directory,
\* the saved count and (for the claims) the saved list
save_crawl_results(fs, crawl_result, base_url, t, by) ==
    save_into(fs, crawl_result, base_url, domain_of(base_url), crawl_dir_name(base_url, t),
              strftime(t), by)

(***************************************************************************)
(* app.py: create_zip_from_directory                                       *)
(***************************************************************************)
\* Path.is_file(): true of a regular file and of a symbolic link to one
is_file(f) == f.kind \in {"file", "symlink_file"}

\* source_dir.rglob('*'): every entry below the directory; a symbolic link
\* to a directory is yielded and not descended into
rglob(fs, source_dir) ==
    {f \in fs : /\ f.dir = source_dir
                /\ f.path # <<>>
                /\ ~\E g \in fs : /\ g.dir = source_dir
                                  /\ g.kind = "symlink_dir"
                                  /\ Len(g.path) < Len(f.path)
                                  /\ SubSeq(f.path, 1, Len(g.path)) = g.path}

\* lines 59-64: the archive's entries, each under its path relative to source_dir
create_zip_from_directory(fs, source_dir) ==
    {[arcname |-> f.path, content |-> f.content, by |-> f.by] :
        f \in {g \in rglob(fs, source_dir) : is_file(g)}}

(***************************************************************************)
(* Requests and the values shared by every specification.                  *)
(***************************************************************************)
Reqs == 1..NumReqs

IdleReq ==
    [pc |-> "idle", url |-> <<>>, depth |-> 0, max_pages |-> 0, password |-> "",
     status |-> 0, crawl_calls |-> 0,
     output_dir |-> <<>>, temp_zip_path |-> 0, zip_filename |-> <<>>,
     reached_zip |-> FALSE, sent |-> {}, overlapped |-> {}]

NoCall == [op |-> "none", returned |-> FALSE]

\* nothing of the web application is running
AppIdle ==
    /\ admin_password = [set |-> FALSE, value |-> ""]
    /\ now = 0
    /\ req = [r \in Reqs |-> IdleReq]
    /\ tmpfiles = {}

(***************************************************************************)
(* SpecName: create_safe_filename called directly on bounded inputs.       *)
(***************************************************************************)
Rep(c, n) == [i \in 1..n |-> c]

NameTitles ==
    { <<>>, <<" ">>, <<"a">>, <<" ","a","\t">>, <<"a",":","b","!">>, <<"?","!">>,
      <<"H","e","l","l","o",":"," ","W","o","r","l","d","!">>, <<"(","v","1",".","0",")","_","x","-","y","/","z">> }
        \cup {Rep("a", n) : n \in (max_length - 1)..(max_length + LongExtra)}
        \cup {<<":">> \o Rep("b", max_length + LongExtra)}

NameUrls ==
    { <<"h","t","t","p","s",":","/","/","a",".","b","/","x","/","y","/">>,
      <<"h","t","t","p","s",":","/","/","a",".","b">>,
      <<"h","t","t","p","s",":","/","/","a",".","b","/">>,
      <<"h","t","t","p","s",":","/","/","a",".","b","/","x","?","q","=","1","#","f">>,
      <<"h","t","t","p","s",":","/","/","a",".","b","/","!","*">>,
      <<"h","t","t","p","s",":","/","/","a",".","b","/","/","x","_","(","1",")","/","/">>,
      <<"p","a","g","e","_","0">> }
        \cup {<<"h","t","t","p","s",":","/","/","a",".","b","/">> \o Rep("c", max_length + LongExtra)}

InitName ==
    /\ AppIdle
    /\ files = {}
    /\ call \in {[op |-> "create_safe_filename", url |-> u, page_title |-> t, returned |-> FALSE] :
                    u \in NameUrls, t \in NameTitles}
    /\ ret = <<>>

CallName ==
    /\ call.op = "create_safe_filename"
    /\ ~call.returned
    /\ ret' = create_safe_filename(call.url, call.page_title)
    /\ call' = [call EXCEPT !.returned = TRUE]
    /\ UNCHANGED <<admin_password, now, req, files, tmpfiles>>

NextName == CallName

SpecName == InitName /\ [][NextName]_vars

(***************************************************************************)
(* SpecSave: save_crawl_results called directly on bounded crawl results,  *)
(* into an output root that is empty or holds a run directory of the same  *)
(* name left by earlier calls.                                             *)
(***************************************************************************)
SaveBaseUrl == <<"h","t","t","p","s",":","/","/","a",".","b">>
SavePageUrl == <<"h","t","t","p","s",":","/","/","a",".","b","/","a">>
SaveTitles == { <<>>, <<"a">>, <<"a", ":">> }
LitHi == <<"H", "i">>

SaveMetas ==
    {[sourceURL |-> SavePageUrl, title |-> t] : t \in SaveTitles}
        \cup {[title |-> t] : t \in SaveTitles}
        \cup {[sourceURL |-> SavePageUrl]}

SavePageSet ==
    {[metadata |-> m, markdown |-> md] : m \in SaveMetas, md \in {LitHi, <<>>}}
        \cup {[metadata |-> [sourceURL |-> SavePageUrl, title |-> <<"a">>]], [metadata |-> [title |-> <<>>]]}

SeqsUpTo(S, n) == UNION {[1..k -> S] : k \in 0..n}

SaveResults ==
    {[data |-> d, total |-> 7, status |-> "completed", creditsUsed |-> 3] : d \in SeqsUpTo(SavePageSet, MaxPages)}
        \cup {[data |-> d] : d \in SeqsUpTo(SavePageSet, MaxPages)}

\* what earlier calls for the same host in the same second left behind
LeftResult == [data |-> <<[metadata |-> [title |-> <<"a">>], markdown |-> LitHi]>>]
Leftover1 == save_crawl_results({}, LeftResult, SaveBaseUrl, 0, "earlier").files
Leftover2 == save_crawl_results(Leftover1, LeftResult, SaveBaseUrl, 0, "earlier").files

InitSave ==
    /\ AppIdle
    /\ files \in {{}, Leftover1, Leftover2}
    /\ call \in {[op |-> "save_crawl_results", crawl_result |-> cr, base_url |-> SaveBaseUrl,
                  before |-> {}, returned |-> FALSE] : cr \in SaveResults}
    /\ ret = <<>>

CallSave ==
    /\ call.op = "save_crawl_results"
    /\ ~call.returned
    /\ LET r == save_crawl_results(files, call.crawl_result, call.base_url, now, "caller")
       IN  /\ files' = r.files
           /\ ret' = [crawl_dir |-> r.crawl_dir, saved_count |-> r.saved_count,
                      saved_files |-> r.saved_files]
    /\ call' = [call EXCEPT !.returned = TRUE, !.before = files]
    /\ UNCHANGED <<admin_password, now, req, tmpfiles>>

NextSave == CallSave

SpecSave == InitSave /\ [][NextSave]_vars

(***************************************************************************)
(* SpecZip: create_zip_from_directory called directly on bounded directory *)
(* trees holding regular files, directories, symbolic links and a FIFO.    *)
(***************************************************************************)
ZipDir == <<"a","_","b","_","2","0","2","5","0","1","0","1","_","0","0","0","0","0","0">>

ZipEntry(path, kind) ==
    [dir |-> ZipDir, path |-> path, kind |-> kind, content |-> [type |-> kind], by |-> "other"]

ZipUniverse ==
    { ZipEntry(<<LitMetadataJson>>, "file"),
      ZipEntry(<<LitIndexMd>>, "file"),
      ZipEntry(<<LitPages>>, "dir"),
      ZipEntry(<<LitPages, <<"0","0","0","_","a",".","m","d">>>>, "file"),
      ZipEntry(<<LitPages, <<"s","u","b">>>>, "dir"),
      ZipEntry(<<LitPages, <<"s","u","b">>, <<"d","e","e","p",".","m","d">>>>, "file"),
      ZipEntry(<<<<"l","i","n","k",".","m","d">>>>, "symlink_file"),
      ZipEntry(<<<<"l","o","o","p">>>>, "symlink_dir"),
      ZipEntry(<<<<"l","o","o","p">>, LitMetadataJson>>, "file"),
      ZipEntry(<<<<"d","a","n","g","l","i","n","g">>>>, "symlink_dangling"),
      ZipEntry(<<<<"f","i","f","o">>>>, "fifo") }

\* every entry's parent is in the tree and is a directory or a link to one
ParentClosed(tree) ==
    \A f \in tree : Len(f.path) > 1 =>
        \E g \in tree : /\ g.path = SubSeq(f.path, 1, Len(f.path) - 1)
                        /\ g.kind \in {"dir", "symlink_dir"}

ZipTrees == {{ZipEntry(<<>>, "dir")} \cup t : t \in {u \in SUBSET ZipUniverse : ParentClosed(u)}}

InitZip ==
    /\ AppIdle
    /\ files \in ZipTrees
    /\ call = [op |-> "create_zip_from_directory", source_dir |-> ZipDir, returned |-> FALSE]
    /\ ret = <<>>

CallZip ==
    /\ call.op = "create_zip_from_directory"
    /\ ~call.returned
    /\ ret' = create_zip_from_directory(files, call.source_dir)
    /\ call' = [call EXCEPT !.returned = TRUE]
    /\ UNCHANGED <<admin_password, now, req, files, tmpfiles>>

NextZip == CallZip

SpecZip == InitZip /\ [][NextZip]_vars

(***************************************************************************)
(* app.py: verify_password, the checks of start_crawl                      *)
(***************************************************************************)
LitHttp == <<"h","t","t","p",":","/","/">>
LitHttps == <<"h","t","t","p","s",":","/","/">>

\* secrets.compare_digest on the encoded strings
compare_digest(a, b) == a = b

\* lines 39-55: 500 when ADMIN_PASSWORD is unset or empty, 401 on a mismatch,
\* 200 when the dependency returns the user name
verify_password_no_compare(admin, password) ==
    IF ~admin.set \/ admin.value = "" THEN 500 ELSE 200

verify_password(admin, password) ==
    IF ~admin.set \/ admin.value = "" THEN 500
    ELSE IF ~compare_digest(password, admin.value) THEN 401
    ELSE 200

\* lines 81-85: 400 when depth or max_pages is out of range
validate_no_upper(depth, max_pages) ==
    IF depth < 0 THEN 400
    ELSE IF max_pages < 1 THEN 400
    ELSE 200

validate(depth, max_pages) ==
    IF depth < 0 \/ depth > 10 THEN 400
    ELSE IF max_pages < 1 \/ max_pages > 1000 THEN 400
    ELSE 200

\* lines 87-88
with_scheme(url) ==
    IF StartsWith(url, LitHttp) \/ StartsWith(url, LitHttps) THEN url ELSE LitHttps \o url

\* lines 95-97: the download's name
zip_filename_of(url, t) ==
    Replace(Replace(urlparse(url).netloc, ".", "_"), ":", "_") \o <<"_">> \o strftime(t)
        \o <<".", "z", "i", "p">>

\* shutil.rmtree(output_dir)
rmtree(fs, output_dir) == {f \in fs : f.dir # output_dir}

(***************************************************************************)
(* Spec: POST /crawl requests served by one event loop (uvicorn.run with   *)
(* one worker).  verify_password is a plain function, which FastAPI runs   *)
(* in its thread pool; start_crawl is a coroutine that never awaits, so    *)
(* its body, from the validation to the return or raise, runs without      *)
(* another request's body in between.  The response is sent, and the       *)
(* background callable run, after the body has returned.                   *)
(***************************************************************************)
AdminPasswords ==
    {[set |-> FALSE, value |-> ""], [set |-> TRUE, value |-> ""], [set |-> TRUE, value |-> "s3cret"]}

Passwords == {"s3cret", "wrong"}

\* two hosts with one domain label: a.b (no scheme given) and a_b
ReqUrls == {<<"a",".","b">>, <<"h","t","t","p","s",":","/","/","a","_","b","/","x">>}

\* (depth, max_pages) as submitted in the form: every pair of values at and
\* around the limits, and the pairs tried when requests run side by side
AllParams == {0 - 1, 0, 2, 10, 11} \X {0, 1, 50, 1000, 1001}
ReqParams == {<<0 - 1, 50>>, <<11, 50>>, <<2, 0>>, <<2, 1001>>, <<0, 1>>, <<10, 1000>>}

\* what the crawl service may return: no page, or MaxPages pages of one title
AppPage == [metadata |-> [sourceURL |-> SavePageUrl, title |-> <<"a">>], markdown |-> LitHi]
AppResults ==
    {[data |-> [i \in 1..k |-> AppPage], total |-> k, status |-> "completed", creditsUsed |-> k] :
        k \in {0, MaxPages}}

\* tempfile.NamedTemporaryFile(delete=False): a name that no existing file has
fresh_temp_name(tmp) == CHOOSE t \in 1..(Cardinality(tmp) + 1) : \A x \in tmp : x.name # t

BodyPcs == {"crawl", "mktemp", "zip", "rmtree"}

InFlight == {q \in Reqs : req[q].pc \notin {"idle", "done"}}

\* the event loop is not inside another request's start_crawl body
LoopFree(r) == \A q \in Reqs \ {r} : req[q].pc \notin BodyPcs

Finish(r, status) == req' = [req EXCEPT ![r].pc = "done", ![r].status = status]

Init ==
    /\ admin_password \in AdminPasswords
    /\ now = 0
    /\ req = [r \in Reqs |-> IdleReq]
    /\ files = {}
    /\ tmpfiles = {}
    /\ call = NoCall
    /\ ret = <<>>

\* a POST /crawl request arrives with its form fields and credentials
Arrive(r, params) ==
    /\ req[r].pc = "idle"
    /\ \A q \in 1..(r - 1) : req[q].pc # "idle"
    /\ \E url \in ReqUrls, p \in params, password \in Passwords :
          req' = [q \in Reqs |->
                    IF q = r
                    THEN [IdleReq EXCEPT !.pc = "auth", !.url = url, !.depth = p[1],
                                         !.max_pages = p[2], !.password = password,
                                         !.overlapped = InFlight]
                    ELSE IF q \in InFlight
                    THEN [req[q] EXCEPT !.overlapped = @ \cup {r}]
                    ELSE req[q]]
    /\ UNCHANGED <<admin_password, now, files, tmpfiles, call, ret>>

\* app.py 39-55, 76: the dependency runs before the body
Auth(r) ==
    /\ req[r].pc = "auth"
    /\ IF verify_password(admin_password, req[r].password) = 200
       THEN req' = [req EXCEPT ![r].pc = "validate"]
       ELSE Finish(r, verify_password(admin_password, req[r].password))
    /\ UNCHANGED <<admin_password, now, files, tmpfiles, call, ret>>

\* app.py 80-88
Validate(r) ==
    /\ req[r].pc = "validate"
    /\ LoopFree(r)
    /\ IF validate(req[r].depth, req[r].max_pages) = 200
       THEN req' = [req EXCEPT ![r].pc = "crawl", ![r].url = with_scheme(@)]
       ELSE Finish(r, 400)
    /\ UNCHANGED <<admin_password, now, files, tmpfiles, call, ret>>

\* app.py 92, main.py 122-172: crawl_website; the crawl service returns a
\* result and save_crawl_results materializes it
CrawlWebsite(r) ==
    /\ req[r].pc = "crawl"
    /\ \E cr \in AppResults :
          files' = save_crawl_results(files, cr, req[r].url, now, r).files
    /\ req' = [req EXCEPT ![r].pc = "mktemp", ![r].crawl_calls = @ + 1,
                          ![r].output_dir = crawl_dir_name(req[r].url, now)]
    /\ UNCHANGED <<admin_password, now, tmpfiles, call, ret>>

\* main.py 174-176, app.py 118-119: the crawl service raises
CrawlFail(r) ==
    /\ req[r].pc = "crawl"
    /\ req' = [req EXCEPT ![r].pc = "done", ![r].status = 500, ![r].crawl_calls = @ + 1]
    /\ UNCHANGED <<admin_password, now, files, tmpfiles, call, ret>>

\* app.py 95-102: the download's name, and an empty temporary file
MkTemp(r) ==
    /\ req[r].pc = "mktemp"
    /\ tmpfiles' = tmpfiles \cup {[name |-> fresh_temp_name(tmpfiles), entries |-> {},
                                   complete |-> FALSE, by |-> r]}
    /\ req' = [req EXCEPT ![r].pc = "zip", ![r].temp_zip_path = fresh_temp_name(tmpfiles),
                          ![r].zip_filename = zip_filename_of(req[r].url, now)]
    /\ UNCHANGED <<admin_password, now, files, call, ret>>

\* app.py 105: the archive is written
ZipOk(r) ==
    /\ req[r].pc = "zip"
    /\ tmpfiles' = {x \in tmpfiles : x.name # req[r].temp_zip_path}
                      \cup {[name |-> req[r].temp_zip_path,
                             entries |-> create_zip_from_directory(files, req[r].output_dir),
                             complete |-> TRUE, by |-> r]}
    /\ req' = [req EXCEPT ![r].pc = "rmtree", ![r].reached_zip = TRUE]
    /\ UNCHANGED <<admin_password, now, files, call, ret>>

\* app.py 105, 118-119: writing the archive raises, here before its first
\* entry is complete; the temporary file stays as it is
ZipFail(r) ==
    /\ req[r].pc = "zip"
    /\ req' = [req EXCEPT ![r].pc = "done", ![r].status = 500, ![r].reached_zip = TRUE]
    /\ UNCHANGED <<admin_password, now, files, tmpfiles, call, ret>>

\* app.py 108
RmtreeOk(r) ==
    /\ req[r].pc = "rmtree"
    /\ files' = rmtree(files, req[r].output_dir)
    /\ req' = [req EXCEPT ![r].pc = "send"]
    /\ UNCHANGED <<admin_password, now, tmpfiles, call, ret>>

\* app.py 108, 118-119: rmtree raises on its first error
RmtreeFail(r) ==
    /\ req[r].pc = "rmtree"
    /\ Finish(r, 500)
    /\ UNCHANGED <<admin_password, now, files, tmpfiles, call, ret>>

\* app.py 111-116: the FileResponse streams the temporary file; the client
\* receives it all or goes away
Send(r) ==
    /\ req[r].pc = "send"
    /\ \E x \in tmpfiles :
          /\ x.name = req[r].temp_zip_path
          /\ req' = [req EXCEPT ![r].pc = "background", ![r].status = 200, ![r].sent = x.entries]
    /\ UNCHANGED <<admin_password, now, files, tmpfiles, call, ret>>

\* app.py 115: os.unlink(temp_zip_path), run once the response is over
Background(r) ==
    /\ req[r].pc = "background"
    /\ tmpfiles' = {x \in tmpfiles : x.name # req[r].temp_zip_path}
    /\ req' = [req EXCEPT ![r].pc = "done"]
    /\ UNCHANGED <<admin_password, now, files, call, ret>>

\* a second passes
Tick ==
    /\ now < MaxTime
    /\ now' = now + 1
    /\ UNCHANGED <<admin_password, req, files, tmpfiles, call, ret>>

\* the steps of request r after its arrival
Step(r) ==
    \/ Auth(r)
    \/ Validate(r)
    \/ CrawlWebsite(r)
    \/ CrawlFail(r)
    \/ MkTemp(r)
    \/ ZipOk(r)
    \/ ZipFail(r)
    \/ RmtreeOk(r)
    \/ RmtreeFail(r)
    \/ Send(r)
    \/ Background(r)

Next ==
    \/ Tick
    \/ \E r \in Reqs : Arrive(r, ReqParams) \/ Step(r)

Spec == Init /\ [][Next]_vars

(***************************************************************************)
(* SpecOne: one POST /crawl request, with every pair of form values.       *)
(***************************************************************************)
NextOne ==
    \/ Tick
    \/ Arrive(1, AllParams)
    \/ Step(1)

SpecOne == Init /\ [][NextOne]_vars

(***************************************************************************)
(* Properties.                                                             *)
(***************************************************************************)
\* files of request r that are still under its run directory
OwnFilesLeft(r) == {f \in files : f.dir = req[r].output_dir /\ f.by = r}

\* the temporary archive of request r is still on disk
OwnTempLeft(r) == \E x \in tmpfiles : x.name = req[r].temp_zip_path /\ x.by = r

\* C1: every request that reached the archive step has no run directory
\* left once it has finished, whether archiving succeeded or raised.
C1_RunDirRemovedAfterArchiveStep ==
    \A r \in Reqs :
        (req[r].pc = "done" /\ req[r].reached_zip) => OwnFilesLeft(r) = {}

\* C2: once a request that created its temporary archive has finished, the
\* temporary archive is deleted, and when the caller got an error neither
\* the temporary archive nor the run directory remains.
C2_TempArchiveDeletedOnEveryExit ==
    \A r \in Reqs :
        (req[r].pc = "done" /\ req[r].temp_zip_path # 0) =>
            /\ ~OwnTempLeft(r)
            /\ req[r].status # 200 => OwnFilesLeft(r) = {}

\* C3: of two requests that were in flight together, the archive sent for
\* one holds only the files that this request materialized, none written by
\* the other.
C3_ConcurrentRequestsIndependent ==
    \A r \in Reqs : \A q \in req[r].overlapped :
        req[r].status = 200 => \A e \in req[r].sent : e.by # q

\* the form values of request r are out of range
OutOfRange(r) ==
    /\ req[r].pc # "idle"
    /\ \/ req[r].depth < 0 \/ req[r].depth > 10
       \/ req[r].max_pages < 1 \/ req[r].max_pages > 1000

\* request r carries the configured admin secret
PasswordAccepted(r) ==
    /\ admin_password.set
    /\ admin_password.value # ""
    /\ req[r].password = admin_password.value

\* request r never called the crawl service, made no run directory and no
\* temporary archive
NoSideEffect(r) ==
    /\ req[r].crawl_calls = 0
    /\ req[r].output_dir = <<>>
    /\ req[r].temp_zip_path = 0
    /\ \A f \in files : f.by # r
    /\ \A x \in tmpfiles : x.by # r

\* C7 as stated: a request with depth or max_pages out of range is answered
\* with 400 and has no side effect.
C7_OutOfRangeAnswered400 ==
    \A r \in Reqs :
        OutOfRange(r) => /\ NoSideEffect(r)
                         /\ req[r].pc = "done" => req[r].status = 400

\* C7 as amended: a request with depth or max_pages out of range has no side
\* effect, and is answered with 400 when it carries the admin secret (with
\* 401 or 500 by the password check otherwise).
C7_OutOfRangeRejected ==
    \A r \in Reqs :
        OutOfRange(r) =>
            /\ NoSideEffect(r)
            /\ req[r].pc = "done" =>
                  /\ PasswordAccepted(r) => req[r].status = 400
                  /\ ~PasswordAccepted(r) => req[r].status \in {401, 500}

C7_Witness ==
    \E r \in Reqs :
        /\ OutOfRange(r)
        /\ req[r].depth > 10
        /\ PasswordAccepted(r)
        /\ req[r].pc = "done"
        /\ req[r].status = 400

\* C10: a request whose password does not match the admin secret is answered
\* 401, and 500 when no admin secret is configured; such a request never
\* calls the crawl service and makes no run directory or temporary archive;
\* no request calls the crawl service more than once.
C10_PasswordCheckPrecedesCrawl ==
    \A r \in Reqs :
        /\ req[r].crawl_calls <= 1
        /\ (req[r].pc # "idle" /\ ~PasswordAccepted(r)) =>
              /\ NoSideEffect(r)
              /\ req[r].pc \in {"auth", "done"}
              /\ req[r].pc = "done" =>
                    req[r].status = IF admin_password.set /\ admin_password.value # ""
                                    THEN 401 ELSE 500

C10_Witness ==
    \E r \in Reqs :
        /\ req[r].pc = "done"
        /\ req[r].status = 401
        /\ req[r].password # admin_password.value
        /\ req[r].depth \in 0..10
        /\ req[r].max_pages \in 1..1000
        /\ req[r].crawl_calls = 0

(***************************************************************************)
(* Properties of save_crawl_results (SpecSave).                            *)
(***************************************************************************)
SaveReturned == call.op = "save_crawl_results" /\ call.returned

SaveData == IF "data" \in DOMAIN call.crawl_result THEN call.crawl_result.data ELSE <<>>

HasBody(page) == "markdown" \in DOMAIN page /\ page.markdown # <<>>

\* the positions (1-based) of the pages with a non-empty body
BodyPositions == {i \in DOMAIN SaveData : HasBody(SaveData[i])}

\* the page files this call wrote
WrittenPages ==
    {f \in files \ call.before :
        f.dir = ret.crawl_dir /\ Len(f.path) = 2 /\ f.path[1] = LitPages /\ f.kind = "file"}

\* the names under pages/ before the call
NamesBefore ==
    {f.path[2] : f \in {g \in call.before :
                          g.dir = ret.crawl_dir /\ Len(g.path) = 2 /\ g.path[1] = LitPages}}

\* a file name starts with the ordinal idx, zero-padded to three digits
HasOrdinal(name, idx) == StartsWith(name, Pad3(idx) \o <<"_">>)

\* index.md holds n entries and the count n
IndexLists(n) ==
    \E ix \in files :
        /\ ix.dir = ret.crawl_dir
        /\ ix.path = <<LitIndexMd>>
        /\ ix.kind = "file"
        /\ ix.by = "caller"
        /\ ix.content.total = n
        /\ Len(ix.content.entries) = n

\* entry k of index.md refers to the file written for the page at position i
IndexEntryIs(k, i) ==
    \E ix \in files : \E f \in WrittenPages :
        /\ ix.dir = ret.crawl_dir
        /\ ix.path = <<LitIndexMd>>
        /\ k \in DOMAIN ix.content.entries
        /\ ix.content.entries[k].link = f.path
        /\ HasOrdinal(f.path[2], i - 1)
        /\ f.content.body = SaveData[i].markdown

\* C4: for N >= 0 pages that all have a non-empty body, exactly N files are
\* written under pages/, index.md lists N entries in the order of the pages
\* with the count N, N is returned, metadata.json holds the declared total,
\* and the run directory, metadata.json and index.md exist also for N = 0.
C4_AllPagesSaved ==
    (SaveReturned /\ BodyPositions = DOMAIN SaveData) =>
        /\ Cardinality(WrittenPages) = Len(SaveData)
        /\ ret.saved_count = Len(SaveData)
        /\ IndexLists(Len(SaveData))
        /\ \A i \in DOMAIN SaveData : IndexEntryIs(i, i)
        /\ \E d \in files : d.dir = ret.crawl_dir /\ d.path = <<>> /\ d.kind = "dir"
        /\ \E m \in files :
              /\ m.dir = ret.crawl_dir
              /\ m.path = <<LitMetadataJson>>
              /\ m.by = "caller"
              /\ m.content.total_pages = IF "total" \in DOMAIN call.crawl_result
                                         THEN call.crawl_result.total ELSE 0

C4_Witness ==
    /\ SaveReturned
    /\ BodyPositions = DOMAIN SaveData
    /\ Len(SaveData) >= 2
    /\ "total" \in DOMAIN call.crawl_result
    /\ call.crawl_result.total # Len(SaveData)
    /\ call.before # {}
    /\ ret.saved_count = Len(SaveData)

\* C5: a page with an empty or absent body gets no file and no index entry
\* and is not counted; the other pages are saved under their own ordinals.
C5_EmptyPagesSkipped ==
    SaveReturned =>
        /\ ret.saved_count = Cardinality(BodyPositions)
        /\ Cardinality(WrittenPages) = Cardinality(BodyPositions)
        /\ IndexLists(Cardinality(BodyPositions))
        /\ \A i \in DOMAIN SaveData \ BodyPositions :
              ~\E f \in WrittenPages : HasOrdinal(f.path[2], i - 1)
        /\ \A i \in BodyPositions :
              \E k \in 1..Cardinality(BodyPositions) : IndexEntryIs(k, i)

C5_Witness ==
    /\ SaveReturned
    /\ \E i \in DOMAIN SaveData \ BodyPositions : \E j \in BodyPositions :
          /\ i < j
          /\ \E f \in WrittenPages : HasOrdinal(f.path[2], j - 1)
    /\ ret.saved_count < Len(SaveData)

\* the positions with a body, in increasing order
BodyOrder ==
    CHOOSE s \in [1..Cardinality(BodyPositions) -> BodyPositions] :
        \A a \in DOMAIN s : \A b \in DOMAIN s : a < b => s[a] < s[b]

\* the candidate name of the saved page k: '<idx>_<safeBaseName>.md', or
\* with the suffix _n for n >= 1
Candidate(k, n) ==
    Pad3(BodyOrder[k] - 1) \o <<"_">>
        \o create_safe_filename(ret.saved_files[k].url, ret.saved_files[k].title)
        \o (IF n = 0 THEN <<>> ELSE <<"_">> \o IntStr(n)) \o LitDotMd

\* C6: saved pages at different ordinals have distinct file names, no page
\* file is written to a name that existed, and each name is the candidate or
\* the candidate with the first suffix _1, _2, ... that did not exist.
C6_FileNamesUnique ==
    SaveReturned =>
        /\ \A i \in DOMAIN ret.saved_files : \A j \in DOMAIN ret.saved_files :
              i # j => ret.saved_files[i].filename # ret.saved_files[j].filename
        /\ \A k \in DOMAIN ret.saved_files :
              /\ ret.saved_files[k].filename \notin NamesBefore
              /\ \E n \in 0..Cardinality(NamesBefore) :
                    /\ ret.saved_files[k].filename = Candidate(k, n)
                    /\ \A m \in 0..(n - 1) : Candidate(k, m) \in NamesBefore

C6_Witness ==
    /\ SaveReturned
    /\ Len(ret.saved_files) >= 2
    /\ create_safe_filename(ret.saved_files[1].url, ret.saved_files[1].title)
          = create_safe_filename(ret.saved_files[2].url, ret.saved_files[2].title)
    /\ ret.saved_files[1].title # ret.saved_files[2].title
    /\ ret.saved_files[1].filename = Candidate(1, 2)

(***************************************************************************)
(* Property of create_zip_from_directory (SpecZip).                        *)
(***************************************************************************)
\* the regular files of the directory: not links, and not seen through one
RegularFiles ==
    {f \in files : /\ f.dir = call.source_dir
                   /\ f.kind = "file"
                   /\ ~\E g \in files : /\ g.kind = "symlink_dir"
                                        /\ Len(g.path) < Len(f.path)
                                        /\ SubSeq(f.path, 1, Len(g.path)) = g.path}

\* C8: the archive of a directory with K regular files has exactly K
\* entries, one per regular file under its relative path; symbolic links and
\* other non-regular entries are not added.
C8_ArchiveHoldsExactlyRegularFiles ==
    (call.op = "create_zip_from_directory" /\ call.returned) =>
        /\ {e.arcname : e \in ret} = {f.path : f \in RegularFiles}
        /\ Cardinality(ret) = Cardinality(RegularFiles)

(***************************************************************************)
(* Property of create_safe_filename (SpecName).                            *)
(***************************************************************************)
AllowedChars == LowerCase \cup UpperCase \cup Digits \cup {" ", "-", "_", ".", "(", ")"}

\* the string the name is made from: the trimmed title when the title is
\* non-empty, else the URL path without outer '/', inner '/' as '_'
NameSource ==
    IF call.page_title # <<>> THEN Strip(call.page_title, Whitespace)
    ELSE Replace(Strip(urlparse(call.url).path, {"/"}), "/", "_")

\* a string with its disallowed characters dropped
IsAllowed(c) == c \in AllowedChars
Kept(s) == SelectSeq(s, IsAllowed)

\* what the claim says of the result for the source string src
ExpectedName(src) ==
    IF Kept(src) = <<>> THEN LitPage
    ELSE SubSeq(Kept(src), 1, IF Len(Kept(src)) < 100 THEN Len(Kept(src)) ELSE 100)

\* C9: the result is non-empty, at most 100 characters, of allowed
\* characters only, and is the source string (the trimmed title, else the
\* URL path, else 'index') filtered, cut to 100 characters, or 'page'.
C9_SafeFilename ==
    (call.op = "create_safe_filename" /\ call.returned) =>
        /\ Len(ret) >= 1
        /\ Len(ret) <= 100
        /\ \A i \in DOMAIN ret : ret[i] \in AllowedChars
        /\ ret = IF call.page_title = <<>> /\ NameSource = <<>> THEN LitIndex
                 ELSE ExpectedName(NameSource)

C9_Witness ==
    /\ call.op = "create_safe_filename"
    /\ call.returned
    /\ Len(call.page_title) > 100
    /\ call.page_title[1] \notin AllowedChars
    /\ Len(ret) = 100

====
